---- MODULE Spec2Model ----
(***************************************************************************)
(* Model of internal/j2g/epic.go: ConvertJiraIssueToGitLabEpic, the        *)
(* conversion of one Jira issue into one GitLab epic: attachment           *)
(* relocation, description formatting, epic creation, comment notes,       *)
(* trailing attachment notes and the close of a resolved issue.            *)
(*                                                                         *)
(* Text is a sequence of tokens: the five delimiter characters the         *)
(* pattern of line 61 names ("!", "[", "]", "(", ")"), the newline, and    *)
(* chunks, which are non-empty runs of other characters.  A group of the   *)
(* pattern is preceded and followed by delimiters, so it always starts and *)
(* ends at a token boundary.                                               *)
(***************************************************************************)
EXTENDS Integers, Sequences, FiniteSets, TLC

VARIABLES
    issue,           \* jiraIssue and the configuration read for it (input)
    run,             \* 1 in the first call on this issue, 2 in the second
    pc,              \* position of the calling goroutine
    i,               \* index of the next element of the attachment / comment loop
    visited,         \* keys the range loop of line 153 has gone through
    sem,             \* errgroup: tasks holding a slot of the limit
    gErr,            \* errgroup: the first error a task returned
    mutex,           \* holder of the RWMutex (0: unlocked)
    attTask,         \* position of each relocation task
    attMd,           \* attachment.Markdown returned to each relocation task
    cmtTask,         \* position of each comment task
    orphTask,        \* position of each trailing-note task
    attachments,     \* map ID -> Markdown (line 52)
    usedAttachment,  \* keys of the map of line 50
    err,             \* the function's variable err (line 25)
    embedded,        \* attachment ids the description embeds
    startFixed,      \* gitlabCreateEpicOptions.StartDateIsFixed
    gitlabEpic,      \* id of the epic this call created (0: none)
    ret,             \* what the call returned
    calls,           \* remote calls this call has issued, and those that succeeded
    epics,           \* GitLab: the epics created, by id
    results          \* what the earlier calls on this issue returned

vars == << issue, run, pc, i, visited, sem, gErr, mutex, attTask, attMd, cmtTask,
           orphTask, attachments, usedAttachment, err, embedded, startFixed,
           gitlabEpic, ret, calls, epics, results >>

(***************************************************************************)
(* Bounds and program constants.                                           *)
(***************************************************************************)
MaxAttachments == 2
MaxComments == 2
MaxTasks == 6

Limit == 5

Nil == "nil"

Host == "https://gitlab.example.com"
IssueProject == "group/issues"

Larger(m, n) == IF m >= n THEN m ELSE n

AttIds == 1..Larger(MaxAttachments, MaxTasks)
CmtIds == 1..Larger(MaxComments, MaxTasks)

(***************************************************************************)
(* errors.Wrap (github.com/pkg/errors): annotates err with a message; "If  *)
(* err is nil, Wrap returns nil."  Errors are named by their message.      *)
(***************************************************************************)
Wrap(e, msg) == IF e = Nil THEN Nil ELSE msg

(***************************************************************************)
(* regexp `!\[(.+)\]\((.+)\)` and FindStringSubmatch (lines 61-62).        *)
(***************************************************************************)
Dot(t) == t # "\n"

AllDot(md, from, to) == \A k \in from..to : Dot(md[k])

\* The pattern matches md from s, with group 1 ending at e1 and group 2 at e2.
MatchAt(md, s, e1, e2) ==
    /\ s >= 1 /\ e1 >= s + 2 /\ e2 >= e1 + 3 /\ e2 + 1 <= Len(md)
    /\ md[s] = "!" /\ md[s + 1] = "["
    /\ AllDot(md, s + 2, e1)
    /\ md[e1 + 1] = "]" /\ md[e1 + 2] = "("
    /\ AllDot(md, e1 + 3, e2)
    /\ md[e2 + 1] = ")"

Max(S) == CHOOSE x \in S : \A y \in S : y <= x
Min(S) == CHOOSE x \in S : \A y \in S : x <= y

Starts(md) == { s \in 1..Len(md) : \E e1, e2 \in 1..Len(md) : MatchAt(md, s, e1, e2) }

\* Leftmost match, each group as long as the rest of the pattern allows.
FindStringSubmatch(md) ==
    IF Starts(md) = {} THEN << >>
    ELSE LET s  == Min(Starts(md))
             e1 == Max({ e \in 1..Len(md) : \E e2 \in 1..Len(md) : MatchAt(md, s, e, e2) })
             e2 == Max({ e \in 1..Len(md) : MatchAt(md, s, e1, e) })
         IN  << SubSeq(md, s, e2 + 1), SubSeq(md, s + 2, e1), SubSeq(md, e1 + 3, e2) >>

\* Line 71 with the URL left as returned.
AbsUrlRelative(url) == url

\* fmt.Sprintf("%s/%s/%s", cfg.GitLab.Host, cfg.Project.GitLab.Issue, url)

AbsUrl(url) == << Host, "/", IssueProject, "/" >> \o url

\* fmt.Sprintf("![%s](%s)", alt, absUrl)
EmbedMarkdown(alt, absUrl) == << "!", "[" >> \o alt \o << "]", "(" >> \o absUrl \o << ")" >>

RECURSIVE Flatten(_)
Flatten(md) == IF md = << >> THEN "" ELSE Head(md) \o Flatten(Tail(md))

\* The value stored under the attachment's ID (lines 68-78).
Relocated(md) ==
    LET matches == FindStringSubmatch(md)
    IN  EmbedMarkdown(matches[2], AbsUrl(matches[3]))

(***************************************************************************)
(* Inputs: what the upload of an attachment returns, and the value of the  *)
(* start-date custom field.                                                *)
(***************************************************************************)
ExampleMd == << "!", "[", "screenshot", "]", "(", "./img/1.png", ")" >>
LinkMd == << "[", "report.pdf", "]", "(", "/uploads/1/report.pdf", ")" >>
TwoMd == << "!", "[", "a", "]", "(", "/uploads/2/a.png", ")", "(", "b", ")" >>

Markups == { ExampleMd, LinkMd, TwoMd }

\* Relocated on the markdown the pattern matches, evaluated once.
RelocatedOf == [ md \in { m \in Markups : Len(FindStringSubmatch(m)) = 3 } |-> Relocated(md) ]

Months == { "01", "02", "03", "04", "05", "06", "07", "08", "09", "10", "11", "12" }
Days30 == { "01", "02", "15", "28", "29", "30" }

\* time.Parse("2006-01-02", s): year-month-day, the day within the month.
TimeParse(s) ==
    /\ Len(s) = 5
    /\ s[2] = "-" /\ s[4] = "-"
    /\ s[1] \in { "2023", "2024" }
    /\ s[3] \in Months
    /\ s[5] \in Days30 \cup { "31" }
    /\ s[5] = "31" => s[3] \in { "01", "03", "05", "07", "08", "10", "12" }
    /\ s[3] = "02" => s[5] \in { "01", "02", "15", "28" } \cup (IF s[1] = "2024" THEN { "29" } ELSE {})

\* cfg.Project.Jira.CustomField.EpicStartDate and jiraIssue.Fields.Unknowns[it]
StartDates ==
    { [field |-> "", kind |-> "absent", text |-> << >>],
      [field |-> "customfield_10015", kind |-> "absent", text |-> << >>],
      [field |-> "customfield_10015", kind |-> "number", text |-> << >>],
      [field |-> "customfield_10015", kind |-> "string", text |-> << "2024", "-", "02", "-", "29" >>],
      [field |-> "customfield_10015", kind |-> "string", text |-> << "29", "/", "02", "/", "2024" >>],
      [field |-> "customfield_10015", kind |-> "string", text |-> << "2023", "-", "02", "-", "29" >>],
      [field |-> "", kind |-> "string", text |-> << "29", "/", "02", "/", "2024" >>] }

DefaultStartDate == [field |-> "", kind |-> "absent", text |-> << >>]

\* The issues converted: up to MaxAttachments attachments and MaxComments
\* comments; the description references the first attachment or none; the
\* first attachment's upload returns any of Markups, the others' an image or
\* a link; the start date field varies on the issues of at most one
\* attachment and one comment.
Issues ==
    { s \in [ natt : 0..MaxAttachments, ncmt : 0..MaxComments, resolution : BOOLEAN,
              inline : SUBSET { 1 }, markdown : [AttIds -> Markups],
              startDate : StartDates ] :
        /\ s.inline \subseteq 1..s.natt
        /\ \A a \in AttIds : a > s.natt => s.markdown[a] = ExampleMd
        /\ \A a \in AttIds : a > 1 => s.markdown[a] # TwoMd
        /\ (s.natt > 1 \/ s.ncmt > 1) => s.startDate = DefaultStartDate }

\* Issues with more attachments or more comments than the limit of the
\* group: up to MaxTasks of the one and at most one of the other; the first
\* two attachments' uploads return an image or a link, the others' a link.
IssuesMany ==
    { s \in [ natt : 0..MaxTasks, ncmt : 0..MaxTasks, resolution : { TRUE },
              inline : { {} }, markdown : [AttIds -> { ExampleMd, LinkMd }],
              startDate : { DefaultStartDate } ] :
        /\ s.natt <= 1 \/ s.ncmt <= 1
        /\ \A a \in AttIds : a > s.natt => s.markdown[a] = ExampleMd
        /\ \A a \in AttIds : (a > 2 /\ a <= s.natt) => s.markdown[a] = LinkMd }

NoCalls ==
    [ create |-> 0, update |-> 0, upload |-> [a \in AttIds |-> 0],
      cnote |-> [c \in CmtIds |-> 0], onote |-> [a \in AttIds |-> 0],
      cnoteOk |-> [c \in CmtIds |-> 0], onoteOk |-> [a \in AttIds |-> 0],
      updateErr |-> Nil ]

NoReturn == [ epic |-> 0, err |-> Nil ]

\* The state of a call before its first statement.
Fresh ==
    /\ pc = "config"
    /\ i = 1
    /\ visited = {}
    /\ sem = 0
    /\ gErr = Nil
    /\ mutex = 0
    /\ attTask = [a \in AttIds |-> "idle"]
    /\ attMd = [a \in AttIds |-> << >>]
    /\ cmtTask = [c \in CmtIds |-> "idle"]
    /\ orphTask = [a \in AttIds |-> "idle"]
    /\ attachments = << >>
    /\ usedAttachment = << >>
    /\ err = Nil
    /\ embedded = {}
    /\ startFixed = FALSE
    /\ gitlabEpic = 0
    /\ ret = NoReturn
    /\ calls = NoCalls

Init ==
    /\ issue \in Issues
    /\ run = 1
    /\ epics = << >>
    /\ results = << >>
    /\ Fresh

(***************************************************************************)
(* Returning from the call, and a task of the errgroup returning.          *)
(***************************************************************************)
Return(epic, e) ==
    /\ pc' = "done"
    /\ ret' = [ epic |-> epic, err |-> e ]

\* A return that keeps the slot.
TaskReturnNoRelease(e) ==
    /\ sem' = sem
    /\ gErr' = IF e # Nil /\ gErr = Nil THEN e ELSE gErr

\* g.done() and g.errOnce: the slot is released, the first error is kept.
TaskReturn(e) ==
    /\ sem' = sem - 1
    /\ gErr' = IF e # Nil /\ gErr = Nil THEN e ELSE gErr

(***************************************************************************)
(* Lines 25-35: configuration and labels.                                  *)
(***************************************************************************)
GetConfig ==
    /\ pc = "config"
    /\ \E e \in { Nil, "config error" } :
         /\ err' = e
         /\ IF e # Nil
               THEN Return(0, Wrap(e, "Error getting config"))
               ELSE pc' = "labels" /\ UNCHANGED ret
    /\ UNCHANGED << issue, run, i, visited, sem, gErr, mutex, attTask, attMd, cmtTask,
                    orphTask, attachments, usedAttachment, embedded, startFixed,
                    gitlabEpic, calls, epics, results >>

ConvertLabels ==
    /\ pc = "labels"
    /\ \E e \in { Nil, "label error" } :
         /\ err' = e
         /\ IF e # Nil
               THEN Return(0, Wrap(e, "Error converting Jira labels to GitLab labels"))
               ELSE pc' = "attachments" /\ UNCHANGED ret
    /\ UNCHANGED << issue, run, i, visited, sem, gErr, mutex, attTask, attMd, cmtTask,
                    orphTask, attachments, usedAttachment, embedded, startFixed,
                    gitlabEpic, calls, epics, results >>

(***************************************************************************)
(* Lines 52-88: the relocation of the attachments.                         *)
(***************************************************************************)
\* g.Go of line 54 on a group without limit.
AttGoNoLimit ==
    /\ pc = "attachments"
    /\ i <= issue.natt
    /\ sem' = sem + 1
    /\ attTask' = [attTask EXCEPT ![i] = "convert"]
    /\ i' = i + 1
    /\ UNCHANGED << issue, run, pc, visited, gErr, mutex, attMd, cmtTask, orphTask,
                    attachments, usedAttachment, err, embedded, startFixed,
                    gitlabEpic, ret, calls, epics, results >>

\* g.Go of line 54: blocks while the limit is reached, then starts the task.
AttGo ==
    /\ pc = "attachments"
    /\ i <= issue.natt
    /\ sem < Limit
    /\ sem' = sem + 1
    /\ attTask' = [attTask EXCEPT ![i] = "convert"]
    /\ i' = i + 1
    /\ UNCHANGED << issue, run, pc, visited, gErr, mutex, attMd, cmtTask, orphTask,
                    attachments, usedAttachment, err, embedded, startFixed,
                    gitlabEpic, ret, calls, epics, results >>

\* Lines 56-66: the upload and the parse of the markdown it returned.
AttConvert(a) ==
    /\ attTask[a] = "convert"
    /\ calls' = [calls EXCEPT !.upload[a] = @ + 1]
    /\ \/ /\ attTask' = [attTask EXCEPT ![a] = "done"]
          /\ TaskReturn(Wrap("upload error", "Error converting Jira attachment to GitLab attachment"))
          /\ UNCHANGED attMd
       \/ LET md == issue.markdown[a] IN
            /\ attMd' = [attMd EXCEPT ![a] = md]
            /\ IF Len(FindStringSubmatch(md)) # 3
                  THEN /\ attTask' = [attTask EXCEPT ![a] = "done"]
                       /\ TaskReturn(Wrap(Nil, "Error parsing markdown"))
                  ELSE /\ attTask' = [attTask EXCEPT ![a] = "lock"]
                       /\ UNCHANGED << sem, gErr >>
    /\ UNCHANGED << issue, run, pc, i, visited, mutex, cmtTask, orphTask, attachments,
                    usedAttachment, err, embedded, startFixed, gitlabEpic, ret,
                    epics, results >>

\* Line 73 with a lock that does not wait for its holder.
AttLockNoWait(a) ==
    /\ attTask[a] = "lock"
    /\ mutex' = a
    /\ attTask' = [attTask EXCEPT ![a] = "store"]
    /\ UNCHANGED << issue, run, pc, i, visited, sem, gErr, attMd, cmtTask, orphTask,
                    attachments, usedAttachment, err, embedded, startFixed,
                    gitlabEpic, ret, calls, epics, results >>

\* Line 73: mutex.Lock()
AttLock(a) ==
    /\ attTask[a] = "lock"
    /\ mutex = 0
    /\ mutex' = a
    /\ attTask' = [attTask EXCEPT ![a] = "store"]
    /\ UNCHANGED << issue, run, pc, i, visited, sem, gErr, attMd, cmtTask, orphTask,
                    attachments, usedAttachment, err, embedded, startFixed,
                    gitlabEpic, ret, calls, epics, results >>

\* Lines 74-81: the insert, mutex.Unlock() and the return of nil.
AttStore(a) ==
    /\ attTask[a] = "store"
    /\ attachments' = (a :> RelocatedOf[attMd[a]]) @@ attachments
    /\ mutex' = 0
    /\ attTask' = [attTask EXCEPT ![a] = "done"]
    /\ TaskReturn(Nil)
    /\ UNCHANGED << issue, run, pc, i, visited, attMd, cmtTask, orphTask,
                    usedAttachment, err, embedded, startFixed, gitlabEpic, ret,
                    calls, epics, results >>

\* Lines 86-88 without the barrier: the error is read while tasks still run.
AttWaitNoBarrier ==
    /\ pc = "attachments"
    /\ i > issue.natt
    /\ IF gErr # Nil
          THEN Return(0, Wrap(gErr, "Error converting Jira attachment to GitLab attachment"))
          ELSE pc' = "format" /\ UNCHANGED ret
    /\ UNCHANGED << issue, run, i, visited, sem, gErr, mutex, attTask, attMd, cmtTask,
                    orphTask, attachments, usedAttachment, err, embedded, startFixed,
                    gitlabEpic, calls, epics, results >>

\* Lines 86-88 without the check: the barrier's error is dropped.
AttWaitNoCheck ==
    /\ pc = "attachments"
    /\ i > issue.natt
    /\ sem = 0
    /\ pc' = "format"
    /\ UNCHANGED << issue, run, i, visited, sem, gErr, mutex, attTask, attMd, cmtTask,
                    orphTask, attachments, usedAttachment, err, embedded, startFixed,
                    gitlabEpic, ret, calls, epics, results >>

\* Lines 86-88 with a barrier that gives way at the first error.
AttWaitFirstError ==
    /\ pc = "attachments"
    /\ i > issue.natt \/ gErr # Nil
    /\ sem = 0 \/ gErr # Nil
    /\ IF gErr # Nil
          THEN Return(0, Wrap(gErr, "Error converting Jira attachment to GitLab attachment"))
          ELSE pc' = "format" /\ UNCHANGED ret
    /\ UNCHANGED << issue, run, i, visited, sem, gErr, mutex, attTask, attMd, cmtTask,
                    orphTask, attachments, usedAttachment, err, embedded, startFixed,
                    gitlabEpic, calls, epics, results >>

\* Lines 86-88: g.Wait() returns when no task is left, with the first error.
AttWait ==
    /\ pc = "attachments"
    /\ i > issue.natt
    /\ sem = 0
    /\ IF gErr # Nil
          THEN Return(0, Wrap(gErr, "Error converting Jira attachment to GitLab attachment"))
          ELSE pc' = "format" /\ UNCHANGED ret
    /\ UNCHANGED << issue, run, i, visited, sem, gErr, mutex, attTask, attMd, cmtTask,
                    orphTask, attachments, usedAttachment, err, embedded, startFixed,
                    gitlabEpic, calls, epics, results >>

(***************************************************************************)
(* Lines 90-124: description, start date and the creation of the epic.     *)
(***************************************************************************)
\* formatDescription: the inline references that have a relocated attachment
\* are replaced by its markdown.
FormatEmbeds(inline, atts) == inline \cap DOMAIN atts

FormatDescription ==
    /\ pc = "format"
    /\ \E e \in { Nil, "format error" } :
         /\ err' = e
         /\ IF e # Nil
               THEN /\ Return(0, Wrap(e, "Error formatting description"))
                    /\ UNCHANGED embedded
               ELSE /\ embedded' = FormatEmbeds(issue.inline, attachments)
                    /\ pc' = "startdate"
                    /\ UNCHANGED ret
    /\ UNCHANGED << issue, run, i, visited, sem, gErr, mutex, attTask, attMd, cmtTask,
                    orphTask, attachments, usedAttachment, startFixed, gitlabEpic,
                    calls, epics, results >>

\* Lines 98-111 with a start date that does not parse skipped like a missing one.
StartDateLenient ==
    /\ pc = "startdate"
    /\ LET sd == issue.startDate IN
         startFixed' = (sd.field # "" /\ sd.kind = "string" /\ TimeParse(sd.text))
    /\ pc' = "create"
    /\ UNCHANGED << issue, run, i, visited, sem, gErr, mutex, attTask, attMd, cmtTask,
                    orphTask, attachments, usedAttachment, err, embedded, gitlabEpic,
                    ret, calls, epics, results >>

\* Lines 98-111.
StartDate ==
    /\ pc = "startdate"
    /\ LET sd == issue.startDate IN
         IF sd.field # "" /\ sd.kind = "string" /\ ~TimeParse(sd.text)
           THEN /\ Return(0, Wrap("parse error", "Error parsing time"))
                /\ UNCHANGED startFixed
           ELSE /\ startFixed' = (sd.field # "" /\ sd.kind = "string")
                /\ pc' = "create"
                /\ UNCHANGED ret
    /\ UNCHANGED << issue, run, i, visited, sem, gErr, mutex, attTask, attMd, cmtTask,
                    orphTask, attachments, usedAttachment, err, embedded, gitlabEpic,
                    calls, epics, results >>

NewEpic ==
    [ state |-> "opened", description |-> embedded, startFixed |-> startFixed,
      startDate |-> IF startFixed THEN issue.startDate.text ELSE << >>,
      cnotes |-> [c \in CmtIds |-> 0], onotes |-> [a \in AttIds |-> 0] ]

\* Lines 119-124 with the creation call issued a second time.
CreateEpicTwice ==
    /\ pc = "create"
    /\ \E e \in { Nil, "create error" } :
         /\ err' = e
         /\ calls' = [calls EXCEPT !.create = @ + 2]
         /\ IF e # Nil
               THEN /\ Return(0, Wrap(e, "Error creating GitLab epic"))
                    /\ UNCHANGED << epics, gitlabEpic, i >>
               ELSE /\ epics' = Append(Append(epics, NewEpic), NewEpic)
                    /\ gitlabEpic' = Len(epics) + 2
                    /\ i' = 1
                    /\ pc' = "comments"
                    /\ UNCHANGED ret
    /\ UNCHANGED << issue, run, visited, sem, gErr, mutex, attTask, attMd, cmtTask,
                    orphTask, attachments, usedAttachment, embedded, startFixed,
                    results >>

\* Lines 119-124 preceded by a lookup of the epic an earlier call created.
CreateEpicOnce ==
    /\ pc = "create"
    /\ IF \E r \in 1..Len(results) : results[r].ret.epic # 0
          THEN /\ gitlabEpic' = (CHOOSE e \in 1..Len(epics) :
                                   \E r \in 1..Len(results) : results[r].ret.epic = e)
               /\ i' = 1
               /\ pc' = "comments"
               /\ UNCHANGED << err, calls, epics, ret >>
          ELSE \E e \in { Nil, "create error" } :
                /\ err' = e
                /\ calls' = [calls EXCEPT !.create = @ + 1]
                /\ IF e # Nil
                      THEN /\ Return(0, Wrap(e, "Error creating GitLab epic"))
                           /\ UNCHANGED << epics, gitlabEpic, i >>
                      ELSE /\ epics' = Append(epics, NewEpic)
                           /\ gitlabEpic' = Len(epics) + 1
                           /\ i' = 1
                           /\ pc' = "comments"
                           /\ UNCHANGED ret
    /\ UNCHANGED << issue, run, visited, sem, gErr, mutex, attTask, attMd, cmtTask,
                    orphTask, attachments, usedAttachment, embedded, startFixed,
                    results >>

\* Lines 119-124: one creation call; GitLab gives the epic the next id.
CreateEpic ==
    /\ pc = "create"
    /\ \E e \in { Nil, "create error" } :
         /\ err' = e
         /\ calls' = [calls EXCEPT !.create = @ + 1]
         /\ IF e # Nil
               THEN /\ Return(0, Wrap(e, "Error creating GitLab epic"))
                    /\ UNCHANGED << epics, gitlabEpic, i >>
               ELSE /\ epics' = Append(epics, NewEpic)
                    /\ gitlabEpic' = Len(epics) + 1
                    /\ i' = 1
                    /\ pc' = "comments"
                    /\ UNCHANGED ret
    /\ UNCHANGED << issue, run, visited, sem, gErr, mutex, attTask, attMd, cmtTask,
                    orphTask, attachments, usedAttachment, embedded, startFixed,
                    results >>

(***************************************************************************)
(* Lines 126-150: one note per comment.                                    *)
(***************************************************************************)
CmtGo ==
    /\ pc = "comments"
    /\ i <= issue.ncmt
    /\ sem < Limit
    /\ sem' = sem + 1
    /\ cmtTask' = [cmtTask EXCEPT ![i] = "run"]
    /\ i' = i + 1
    /\ UNCHANGED << issue, run, pc, visited, gErr, mutex, attTask, attMd, orphTask,
                    attachments, usedAttachment, err, embedded, startFixed,
                    gitlabEpic, ret, calls, epics, results >>

\* Lines 130-143: formatNote, then CreateEpicNote; err is the task's own.
CmtRun(c) ==
    /\ cmtTask[c] = "run"
    /\ cmtTask' = [cmtTask EXCEPT ![c] = "done"]
    /\ \/ /\ TaskReturn(Wrap("format error", "Error formatting comment"))
          /\ UNCHANGED << calls, epics >>
       \/ \E e \in { Nil, "note error" } :
            /\ calls' = [calls EXCEPT !.cnote[c] = @ + 1,
                                      !.cnoteOk[c] = IF e = Nil THEN @ + 1 ELSE @]
            /\ epics' = IF e = Nil
                           THEN [epics EXCEPT ![gitlabEpic].cnotes[c] = @ + 1]
                           ELSE epics
            /\ TaskReturn(Wrap(e, "Error creating note"))
    /\ UNCHANGED << issue, run, pc, i, visited, mutex, attTask, attMd, orphTask,
                    attachments, usedAttachment, err, embedded, startFixed,
                    gitlabEpic, ret, results >>

\* Lines 148-150 without the check: the barrier's error is dropped.
CmtWaitNoCheck ==
    /\ pc = "comments"
    /\ i > issue.ncmt
    /\ sem = 0
    /\ pc' = "orphans"
    /\ UNCHANGED << issue, run, i, visited, sem, gErr, mutex, attTask, attMd, cmtTask,
                    orphTask, attachments, usedAttachment, err, embedded, startFixed,
                    gitlabEpic, ret, calls, epics, results >>

\* Lines 148-150.
CmtWait ==
    /\ pc = "comments"
    /\ i > issue.ncmt
    /\ sem = 0
    /\ IF gErr # Nil
          THEN Return(0, Wrap(gErr, "Error creating GitLab comment"))
          ELSE pc' = "orphans" /\ UNCHANGED ret
    /\ UNCHANGED << issue, run, i, visited, sem, gErr, mutex, attTask, attMd, cmtTask,
                    orphTask, attachments, usedAttachment, err, embedded, startFixed,
                    gitlabEpic, calls, epics, results >>

(***************************************************************************)
(* Lines 152-173: one note per attachment that is not marked used.         *)
(***************************************************************************)
\* Line 154: used, ok := usedAttachment[id]; ok || used
Used(id) == id \in DOMAIN usedAttachment

\* One iteration of the range loop (the order of a map's keys is not fixed).
OrphGo(a) ==
    /\ pc = "orphans"
    /\ a \in DOMAIN attachments \ visited
    /\ IF Used(a)
          THEN UNCHANGED << sem, orphTask >>
          ELSE /\ sem < Limit
               /\ sem' = sem + 1
               /\ orphTask' = [orphTask EXCEPT ![a] = "call"]
    /\ visited' = visited \cup { a }
    /\ UNCHANGED << issue, run, pc, i, gErr, mutex, attTask, attMd, cmtTask,
                    attachments, usedAttachment, err, embedded, startFixed,
                    gitlabEpic, ret, calls, epics, results >>

\* Lines 160-162: CreateEpicNote; its error is assigned to the function's err.
OrphCall(a) ==
    /\ orphTask[a] = "call"
    /\ orphTask' = [orphTask EXCEPT ![a] = "check"]
    /\ \E e \in { Nil, "note error" } :
         /\ calls' = [calls EXCEPT !.onote[a] = @ + 1,
                                   !.onoteOk[a] = IF e = Nil THEN @ + 1 ELSE @]
         /\ err' = e
         /\ epics' = IF e = Nil
                        THEN [epics EXCEPT ![gitlabEpic].onotes[a] = @ + 1]
                        ELSE epics
    /\ UNCHANGED << issue, run, pc, i, visited, sem, gErr, mutex, attTask, attMd,
                    cmtTask, attachments, usedAttachment, embedded, startFixed,
                    gitlabEpic, ret, results >>

\* Lines 163-166: the task returns what the function's err holds by now.
OrphCheck(a) ==
    /\ orphTask[a] = "check"
    /\ orphTask' = [orphTask EXCEPT ![a] = "done"]
    /\ TaskReturn(Wrap(err, "Error creating note"))
    /\ UNCHANGED << issue, run, pc, i, visited, mutex, attTask, attMd, cmtTask,
                    attachments, usedAttachment, err, embedded, startFixed,
                    gitlabEpic, ret, calls, epics, results >>

\* Lines 171-173.
OrphWait ==
    /\ pc = "orphans"
    /\ visited = DOMAIN attachments
    /\ sem = 0
    /\ IF gErr # Nil
          THEN Return(0, Wrap(gErr, "Error creating GitLab issue"))
          ELSE pc' = "resolution" /\ UNCHANGED ret
    /\ UNCHANGED << issue, run, i, visited, sem, gErr, mutex, attTask, attMd, cmtTask,
                    orphTask, attachments, usedAttachment, err, embedded, startFixed,
                    gitlabEpic, calls, epics, results >>

(***************************************************************************)
(* Lines 175-183: the close of a resolved issue, and the return.           *)
(***************************************************************************)
\* Lines 175-183 without the test of the resolution.
ApplyStateAlways ==
    /\ pc = "resolution"
    /\ \E e \in { Nil, "update error" } :
         /\ calls' = [calls EXCEPT !.update = @ + 1, !.updateErr = e]
         /\ epics' = IF e = Nil
                        THEN [epics EXCEPT ![gitlabEpic].state = "closed"]
                        ELSE epics
    /\ Return(gitlabEpic, Nil)
    /\ UNCHANGED << issue, run, i, visited, sem, gErr, mutex, attTask, attMd, cmtTask,
                    orphTask, attachments, usedAttachment, err, embedded, startFixed,
                    gitlabEpic, results >>

\* Lines 175-183 without the state-update call.
ApplyStateNever ==
    /\ pc = "resolution"
    /\ Return(gitlabEpic, Nil)
    /\ UNCHANGED << issue, run, i, visited, sem, gErr, mutex, attTask, attMd, cmtTask,
                    orphTask, attachments, usedAttachment, err, embedded, startFixed,
                    gitlabEpic, calls, epics, results >>

\* Lines 175-183 with UpdateEpic's error returned.
ApplyStateStrict ==
    /\ pc = "resolution"
    /\ IF issue.resolution
          THEN \E e \in { Nil, "update error" } :
                /\ calls' = [calls EXCEPT !.update = @ + 1, !.updateErr = e]
                /\ epics' = IF e = Nil
                               THEN [epics EXCEPT ![gitlabEpic].state = "closed"]
                               ELSE epics
                /\ IF e = Nil THEN Return(gitlabEpic, Nil)
                              ELSE Return(0, Wrap(e, "Error closing GitLab epic"))
          ELSE UNCHANGED << calls, epics >> /\ Return(gitlabEpic, Nil)
    /\ UNCHANGED << issue, run, i, visited, sem, gErr, mutex, attTask, attMd, cmtTask,
                    orphTask, attachments, usedAttachment, err, embedded, startFixed,
                    gitlabEpic, results >>

\* Lines 175-183: UpdateEpic's result is not looked at.
ApplyState ==
    /\ pc = "resolution"
    /\ IF issue.resolution
          THEN \E e \in { Nil, "update error" } :
                /\ calls' = [calls EXCEPT !.update = @ + 1, !.updateErr = e]
                /\ epics' = IF e = Nil
                               THEN [epics EXCEPT ![gitlabEpic].state = "closed"]
                               ELSE epics
          ELSE UNCHANGED << calls, epics >>
    /\ Return(gitlabEpic, Nil)
    /\ UNCHANGED << issue, run, i, visited, sem, gErr, mutex, attTask, attMd, cmtTask,
                    orphTask, attachments, usedAttachment, err, embedded, startFixed,
                    gitlabEpic, results >>

(***************************************************************************)
(* The caller converts the issue a second time after a call that returned *)
(* its epic.                                                               *)
(***************************************************************************)
Again ==
    /\ pc = "done"
    /\ ret.err = Nil
    /\ run = 1
    /\ run' = 2
    /\ results' = Append(results, [ ret |-> ret, calls |-> calls ])
    /\ pc' = "config"
    /\ i' = 1
    /\ visited' = {}
    /\ sem' = 0
    /\ gErr' = Nil
    /\ mutex' = 0
    /\ attTask' = [a \in AttIds |-> "idle"]
    /\ attMd' = [a \in AttIds |-> << >>]
    /\ cmtTask' = [c \in CmtIds |-> "idle"]
    /\ orphTask' = [a \in AttIds |-> "idle"]
    /\ attachments' = << >>
    /\ usedAttachment' = << >>
    /\ err' = Nil
    /\ embedded' = {}
    /\ startFixed' = FALSE
    /\ gitlabEpic' = 0
    /\ ret' = NoReturn
    /\ calls' = NoCalls
    /\ UNCHANGED << issue, epics >>

\* The steps of one call.
Convert ==
    \/ GetConfig
    \/ ConvertLabels
    \/ AttGo
    \/ \E a \in AttIds : AttConvert(a)
    \/ \E a \in AttIds : AttLock(a)
    \/ \E a \in AttIds : AttStore(a)
    \/ AttWait
    \/ FormatDescription
    \/ StartDate
    \/ CreateEpic
    \/ CmtGo
    \/ \E c \in CmtIds : CmtRun(c)
    \/ CmtWait
    \/ \E a \in AttIds : OrphGo(a)
    \/ \E a \in AttIds : OrphCall(a)
    \/ \E a \in AttIds : OrphCheck(a)
    \/ OrphWait
    \/ ApplyState

Next ==
    \/ Convert
    \/ Again

Spec == Init /\ [][Next]_vars

\* One call on an issue of IssuesMany.
InitMany ==
    /\ issue \in IssuesMany
    /\ run = 1
    /\ epics = << >>
    /\ results = << >>
    /\ Fresh

SpecMany == InitMany /\ [][Convert]_vars

\* Every remote call returns and the goroutines are scheduled: a step of the
\* call that stays possible is taken.
FairSpec == SpecMany /\ WF_vars(Convert)

(***************************************************************************)
(* Properties.                                                             *)
(***************************************************************************)
Source == 1..issue.natt

Matches(md) == Len(FindStringSubmatch(md)) = 3

\* The relocation task of a has returned and ...
UploadFailed(a) == attTask[a] = "done" /\ attMd[a] = << >>
Malformed(a) == attTask[a] = "done" /\ attMd[a] # << >> /\ ~Matches(attMd[a])

Returned == pc = "done"
Succeeded == pc = "done" /\ ret.err = Nil
NoteCalls(c) == [ k \in CmtIds |-> c.cnote[k] ] = [ k \in CmtIds |-> 0 ]
                  /\ [ k \in AttIds |-> c.onote[k] ] = [ k \in AttIds |-> 0 ]

\* C1: once the upload of an attachment has succeeded with markdown that does
\* not match ![alt](url), its task has failed with an error (the group holds
\* it), no epic creation call is issued, and the call returns an error.
C1_MalformedAborts ==
    \A a \in Source :
        Malformed(a) => /\ gErr # Nil
                        /\ calls.create = 0
                        /\ Returned => (ret.err # Nil /\ ret.epic = 0)

\* C2: once the relocation of one attachment has failed, the call goes no
\* further than the barrier of the relocation phase: no epic creation call is
\* issued, and what it returns is an error and no epic.
C2_RelocationFailureAborts ==
    (\E a \in Source : UploadFailed(a)) =>
        /\ pc \in { "attachments", "done" }
        /\ calls.create = 0
        /\ gitlabEpic = 0
        /\ Returned => (ret.err # Nil /\ ret.epic = 0)

C2_Witness ==
    /\ Returned
    /\ \E a, b \in Source : UploadFailed(a) /\ b \in DOMAIN attachments

\* C3: an attachment the description references inline gets no trailing-note
\* task and no trailing-note call.
C3_InlineNotOrphan ==
    \A a \in issue.inline : orphTask[a] = "idle" /\ calls.onote[a] = 0

\* C4: when the call returns its epic, every attachment of the issue that the
\* description does not reference has exactly one trailing note on that epic,
\* and every attachment is embedded or has a trailing note.
C4_EveryAttachmentOnce ==
    Succeeded =>
        \A a \in Source :
            /\ a \notin issue.inline => epics[ret.epic].onotes[a] = 1
            /\ a \in embedded \/ epics[ret.epic].onotes[a] >= 1

\* C5: for an issue without resolution no state-update call is issued, and no
\* epic is closed, whether the call fails or not.
C5_NoResolutionNoUpdate ==
    ~issue.resolution =>
        /\ calls.update = 0
        /\ \A e \in 1..Len(epics) : epics[e].state = "opened"

C5_Witness == Succeeded /\ ~issue.resolution /\ issue.natt > 0 /\ issue.ncmt > 0

\* C6 as stated: when a resolved issue's call returns its epic, the epic is
\* closed.
C6_ResolvedIsClosed ==
    (Succeeded /\ issue.resolution) => epics[ret.epic].state = "closed"

\* C6: when a resolved issue's call returns its epic, the state-update call
\* was issued exactly once, and the epic is closed exactly when that call
\* succeeded.
C6_ResolvedCloseAttempted ==
    (Succeeded /\ issue.resolution) =>
        /\ calls.update = 1
        /\ epics[ret.epic].state = "closed" <=> calls.updateErr = Nil

C6_Witness == Succeeded /\ issue.resolution /\ epics[ret.epic].state = "closed"

\* C7 as stated: a returned call on an issue without attachments and comments
\* has issued exactly one epic creation call and no note call.
C7_OneCreateNoNotes ==
    (Returned /\ issue.natt = 0 /\ issue.ncmt = 0) =>
        calls.create = 1 /\ NoteCalls(calls)

\* C7: a call on an issue without attachments and comments issues no note
\* call and at most one epic creation call: none when it fails before the
\* creation step, one when it returns a creation error or the epic.
C7_OneCreateWhenReached ==
    (issue.natt = 0 /\ issue.ncmt = 0) =>
        /\ NoteCalls(calls)
        /\ Returned =>
              calls.create = IF ret.err \in { Nil, "Error creating GitLab epic" } THEN 1 ELSE 0
        /\ ~Returned =>
              calls.create = IF pc \in { "comments", "orphans", "resolution" } THEN 1 ELSE 0

C7_Witness == Succeeded /\ issue.natt = 0 /\ issue.ncmt = 0 /\ calls.create = 1

\* C8: when the second call on an issue returns its epic as the first did,
\* each of the two calls issued one creation call, the two epics differ, and
\* the second call uploaded every attachment and issued every note call again.
C8_NotIdempotent ==
    (Succeeded /\ run = 2) =>
        LET first == results[1] IN
        /\ first.ret.epic # 0 /\ ret.epic # 0 /\ first.ret.epic # ret.epic
        /\ first.calls.create = 1 /\ calls.create = 1
        /\ Len(epics) = 2
        /\ \A a \in Source : first.calls.upload[a] = 1 /\ calls.upload[a] = 1
        /\ \A c \in 1..issue.ncmt : first.calls.cnote[c] = 1 /\ calls.cnote[c] = 1
        /\ \A a \in Source : calls.onote[a] = first.calls.onote[a]

C8_Witness ==
    /\ Succeeded /\ run = 2
    /\ issue.ncmt > 0
    /\ \E a \in Source : calls.onote[a] = 1

ExampleExpected == "![screenshot](https://gitlab.example.com/group/issues/img/1.png)"
ExampleStored == "![screenshot](https://gitlab.example.com/group/issues/./img/1.png)"
TwoStored == "![a](https://gitlab.example.com/group/issues//uploads/2/a.png)(b)"

\* The markdown is ![..](U..) with U starting with the host and the project.
AbsoluteEmbed(md) ==
    /\ Len(md) >= 10
    /\ md[1] = "!" /\ md[2] = "["
    /\ md[Len(md)] = ")"
    /\ \E k \in 3..(Len(md) - 6) :
         /\ \A j \in 3..k : md[j] \notin { "]", "(" }
         /\ SubSeq(md, k + 1, k + 6) = << "]", "(", Host, "/", IssueProject, "/" >>

\* C9 as stated: every stored markdown is an embed of an absolute URL under
\* the host and the staging project, and the example's is the expected text.
C9_ExampleMarkup ==
    \A a \in DOMAIN attachments :
        /\ AbsoluteEmbed(attachments[a])
        /\ attMd[a] = ExampleMd => Flatten(attachments[a]) = ExampleExpected

\* C9: every stored markdown is an embed of an absolute URL made of the host,
\* "/", the staging project, "/" and the returned URL as it is; the example's
\* is ![screenshot](https://gitlab.example.com/group/issues/./img/1.png).
C9_AbsoluteMarkup ==
    \A a \in DOMAIN attachments :
        /\ AbsoluteEmbed(attachments[a])
        /\ attMd[a] = ExampleMd => Flatten(attachments[a]) = ExampleStored
        /\ attMd[a] = TwoMd => Flatten(attachments[a]) = TwoStored

C9_Witness ==
    \E a, b \in DOMAIN attachments : attMd[a] = ExampleMd /\ attMd[b] = TwoMd

Done(task, S) == \A k \in S : task[k] = "done"
Idle(task, S) == \A k \in S : task[k] = "idle"

\* C10: the description is formatted and the epic created only when every
\* relocation task has returned; a comment task runs only once the creation
\* call has returned an epic; a trailing-note task runs only when every
\* comment task has returned; the state-update call is issued only when every
\* trailing-note task has returned.
C10_PhasesInSequence ==
    /\ (pc \in { "format", "startdate", "create" } \/ calls.create > 0) =>
          Done(attTask, Source)
    /\ ~Idle(cmtTask, CmtIds) =>
          gitlabEpic # 0 /\ calls.create = 1 /\ Done(attTask, Source)
    /\ ~Idle(orphTask, AttIds) => Done(cmtTask, 1..issue.ncmt)
    /\ (pc = "resolution" \/ calls.update > 0) =>
          /\ visited = DOMAIN attachments
          /\ Done(orphTask, visited)
          /\ Done(cmtTask, 1..issue.ncmt)
          /\ sem = 0

C10_Witness ==
    /\ Returned /\ calls.update = 1
    /\ issue.ncmt > 1
    /\ Cardinality(DOMAIN attachments) > 1

\* A trailing-note call of this conversion has failed.
OrphanNoteFailed == \E a \in AttIds : calls.onote[a] > calls.onoteOk[a]

\* C11: a call in which a trailing-note creation call has failed returns an
\* error and no epic, whatever the interleaving of the trailing-note tasks.
C11_OrphanFailureReturned ==
    (Returned /\ OrphanNoteFailed) => (ret.err # Nil /\ ret.epic = 0)

\* The tasks whose next step writes the function's err, the map attachments.
WritersOfErr == { a \in AttIds : orphTask[a] = "call" }
WritersOfAttachments == { a \in AttIds : attTask[a] = "store" }

\* C12: in no state do two tasks in flight stand before a write of the same
\* shared variable without holding the mutex.
C12_WritesExclusive ==
    \A W \in { WritersOfAttachments, WritersOfErr } :
        Cardinality({ a \in W : mutex # a }) <= 1

\* The tasks that have started and not returned.
InFlight ==
    Cardinality({ a \in AttIds : attTask[a] \notin { "idle", "done" } })
    + Cardinality({ c \in CmtIds : cmtTask[c] \notin { "idle", "done" } })
    + Cardinality({ a \in AttIds : orphTask[a] \notin { "idle", "done" } })

\* A returned call has no task in flight, and every task of the phase whose
\* error it returns was submitted and has returned.
AllRunToCompletion ==
    Returned =>
        /\ InFlight = 0 /\ sem = 0
        /\ ret.err = "Error converting Jira attachment to GitLab attachment" =>
              Done(attTask, Source) /\ \A a \in Source : calls.upload[a] = 1
        /\ ret.err = "Error creating GitLab comment" => Done(cmtTask, 1..issue.ncmt)
        /\ ret.err = "Error creating GitLab issue" => Done(orphTask, DOMAIN attachments)

\* No step removes an epic or a note from GitLab.
NoRollback ==
    /\ Len(epics') >= Len(epics)
    /\ \A e \in 1..Len(epics) :
         /\ \A c \in CmtIds : epics'[e].cnotes[c] >= epics[e].cnotes[c]
         /\ \A a \in AttIds : epics'[e].onotes[a] >= epics[e].onotes[a]

\* C13: an error in a phase cancels nothing: the call returns only when no
\* task is in flight and every task of the failed phase has been submitted and
\* has returned, and no step undoes a remote write.
C13_NoCancelNoRollback == []AllRunToCompletion /\ [][NoRollback]_vars

C13_Witness ==
    /\ Returned /\ ret.err = "Error creating GitLab comment"
    /\ \E c, d \in 1..issue.ncmt :
         /\ calls.cnote[c] > calls.cnoteOk[c]
         /\ epics[gitlabEpic].cnotes[d] = 1

\* C14: the tasks in flight are those that hold a slot of the group, and
\* there are at most Limit of them.
C14_AtMostLimitInFlight == InFlight = sem /\ sem <= Limit /\ InFlight <= 5

\* The loop of line 53 waits in g.Go with tasks left to submit.
C14_Witness ==
    /\ pc = "attachments" /\ i <= issue.natt
    /\ InFlight = Limit

\* g.Go of the calling goroutine waits for a slot.
Blocked ==
    /\ sem = Limit
    /\ \/ pc = "attachments" /\ i <= issue.natt
       \/ pc = "comments" /\ i <= issue.ncmt
       \/ pc = "orphans" /\ visited # DOMAIN attachments

\* C20: every call returns, and a submission that waits for a slot gets one.
C20_Terminates == <>Returned /\ (Blocked ~> ~Blocked)

C20_Witness ==
    /\ Succeeded
    /\ issue.ncmt > Limit
    /\ \A c \in 1..issue.ncmt : calls.cnoteOk[c] = 1

\* C15: at most one relocation task is between Lock and Unlock, and it is the
\* holder of the mutex; the map is read (description, comment tasks, the loop
\* of line 153) only when no relocation task is in flight.
C15_InsertExclusive ==
    /\ \A a, b \in AttIds : (attTask[a] = "store" /\ attTask[b] = "store") => a = b
    /\ \A a \in AttIds : attTask[a] = "store" => mutex = a
    /\ (pc \in { "format", "orphans" } \/ \E c \in CmtIds : cmtTask[c] = "run") =>
          \A a \in AttIds : attTask[a] \in { "idle", "done" }

C15_Witness == \E a, b \in AttIds : attTask[a] = "store" /\ attTask[b] = "lock"

\* The comment task of c has returned without a note.
CommentFailed(c) == cmtTask[c] = "done" /\ calls.cnoteOk[c] = 0

\* C16: once a comment task has failed, the call goes no further than the
\* barrier of the comment phase: no trailing-note task, no trailing-note or
\* state-update call; it returns an error and no epic; the epic it created is
\* still there, opened, with the notes posted so far.
C16_CommentFailureAborts ==
    (\E c \in CmtIds : CommentFailed(c)) =>
        /\ pc \in { "comments", "done" }
        /\ Idle(orphTask, AttIds)
        /\ \A a \in AttIds : calls.onote[a] = 0
        /\ calls.update = 0
        /\ gitlabEpic \in 1..Len(epics)
        /\ epics[gitlabEpic].state = "opened"
        /\ \A c \in CmtIds : epics[gitlabEpic].cnotes[c] = calls.cnoteOk[c]
        /\ Returned => (ret.err # Nil /\ ret.epic = 0)

C16_Witness ==
    /\ Returned
    /\ \E c, d \in 1..issue.ncmt :
         /\ CommentFailed(c) /\ calls.cnote[c] = 0
         /\ epics[gitlabEpic].cnotes[d] = 1

GoodDate == << "2024", "-", "02", "-", "29" >>
BadDates == { << "29", "/", "02", "/", "2024" >>, << "2023", "-", "02", "-", "29" >> }

\* The call has gone past the start date.
PastStartDate == pc \in { "create", "comments", "orphans", "resolution" } \/ calls.create > 0

\* C17: with a field name configured and a string that is no date the call
\* returns an error before the creation call; with no field name, no value or
\* a value that is no string it is never the parse error that is returned and
\* the epic is created without fixed start date; with a date the epic is
\* created with that date and the flag set.
C17_StartDate ==
    LET sd == issue.startDate
        configured == sd.field = "customfield_10015"
        isString == sd.kind = "string"
    IN  /\ (configured /\ isString /\ sd.text \in BadDates) =>
              /\ ~PastStartDate /\ gitlabEpic = 0
              /\ Returned => (ret.err # Nil /\ ret.epic = 0)
        /\ (~configured \/ ~isString) =>
              /\ ret.err # "Error parsing time"
              /\ pc = "startdate" => ENABLED StartDate
              /\ gitlabEpic # 0 => /\ ~epics[gitlabEpic].startFixed
                                   /\ epics[gitlabEpic].startDate = << >>
        /\ (configured /\ isString /\ sd.text = GoodDate) =>
              /\ ret.err # "Error parsing time"
              /\ gitlabEpic # 0 => /\ epics[gitlabEpic].startFixed
                                   /\ epics[gitlabEpic].startDate = GoodDate

C17_Witness ==
    /\ Returned /\ ret.err = "Error parsing time"
    /\ issue.startDate.text = << "2023", "-", "02", "-", "29" >>

\* C18: when the state-update call has failed, the call has returned its epic
\* and no error, and the epic is as it was: opened, with the notes posted.
C18_BestEffortClose ==
    (calls.update > 0 /\ calls.updateErr # Nil) =>
        /\ Returned /\ ret.err = Nil /\ ret.epic = gitlabEpic /\ gitlabEpic # 0
        /\ epics[gitlabEpic].state = "opened"
        /\ \A c \in CmtIds : epics[gitlabEpic].cnotes[c] = calls.cnoteOk[c]
        /\ \A a \in AttIds : epics[gitlabEpic].onotes[a] = calls.onoteOk[a]

C18_Witness ==
    /\ Returned /\ calls.updateErr # Nil
    /\ \E c \in CmtIds : epics[gitlabEpic].cnotes[c] = 1
    /\ \E a \in AttIds : epics[gitlabEpic].onotes[a] = 1

RECURSIVE Sum(_, _)
Sum(f, S) == IF S = {} THEN 0 ELSE LET x == CHOOSE y \in S : TRUE IN f[x] + Sum(f, S \ { x })

\* C19: the used-attachment map stays empty; once the loop of line 153 is
\* over, every entry of attachments has its trailing-note task, embedded in
\* the description or not; when the call returns its epic, the epic has as
\* many trailing notes as attachments has entries.
C19_AllEntriesPosted ==
    /\ DOMAIN usedAttachment = {}
    /\ (pc = "resolution" \/ (Returned /\ ret.err \in { Nil, "Error creating GitLab issue" })) =>
          \A a \in DOMAIN attachments : orphTask[a] = "done" /\ calls.onote[a] = 1
    /\ Succeeded =>
          Sum(epics[ret.epic].onotes, AttIds) = Cardinality(DOMAIN attachments)

====
